---- MODULE Spec2Model ----
(***************************************************************************)
(* The `consul keyring` command (command/keyring/keyring.go): one run of   *)
(* cmd.Run from flag parsing to the exit code, and the report formatter    *)
(* formatResponse with Go's unspecified map iteration order.               *)
(*                                                                         *)
(* Text is a sequence of tokens: a token is either NL (one newline) or a   *)
(* non-empty piece without a newline; the empty string is << >>.           *)
(***************************************************************************)
EXTENDS Integers, Sequences, FiniteSets, TLC

VARIABLES
    pc,          \* position of the run inside cmd.Run
    c,           \* the flag fields of cmd
    relayFactor, \* local relayFactor of Run
    client,      \* TRUE once c.http.APIClient() returned a client
    calls,       \* the client verbs invoked so far, in order
    responses,   \* local responses of Run (result of KeyringList)
    idx,         \* position of the range loop over responses
    ui,          \* what was written to c.UI, in order
    exitCode     \* return value of Run, -1 while it runs

vars == <<pc, c, relayFactor, client, calls, responses, idx, ui, exitCode>>

(***************************************************************************)
(* Bounds and input sets                                                   *)
(***************************************************************************)
MaxRelayFactor == 5

\* relay-factor inputs range over -RelaySlack .. MaxRelayFactor + RelaySlack
RelaySlack == 2

\* longest list of pool responses the client returns
MaxResponses == 2

RelayInputs == (0 - RelaySlack)..(MaxRelayFactor + RelaySlack)

KeyArgs == {"", "abc123", "def456"}

NoError == "<nil>"

TransportErrors == {"connection refused"}

ClientErrors == {"invalid address"}

Nodes == {"node1", "node2"}

Msgs == {"cannot remove primary key", "no such key"}

KeyNames == {"abc123", "def456"}

Segments == {"", "alpha"}

TotalNodes == {2}

\* all maps from a subset of D to values of V (a Go map)
Maps(D, V) == UNION {[S -> V] : S \in SUBSET D}

EmptyMap == [x \in {} |-> 0]

\* consulapi.KeyringResponse values
KeyringResponses ==
    UNION {[Datacenter : {"dc1"}, WAN : BOOLEAN, Segment : Segments,
            Messages : Maps(Nodes, Msgs),
            Keys : Maps(KeyNames, 1..n),
            PrimaryKeys : Maps(KeyNames, 1..n),
            NumNodes : {n}] : n \in TotalNodes}

\* the pool responses the client returns within a run: a LAN and a WAN pool,
\* with no node message or one from each node, and one or two installed keys
ClientResponses ==
    {r \in KeyringResponses :
        /\ r.Segment = ""
        /\ r.Messages \in {EmptyMap,
                           [n \in Nodes |-> IF n = "node1"
                                            THEN "no such key"
                                            ELSE "cannot remove primary key"]}
        /\ <<r.Keys, r.PrimaryKeys>> \in
              {<<[k \in {"abc123"} |-> 2], [k \in {"abc123"} |-> 2]>>,
               <<[k \in KeyNames |-> IF k = "abc123" THEN 2 ELSE 1],
                 [k \in KeyNames |-> 1]>>}}

SeqsUpTo(S, n) == UNION {[1..k -> S] : k \in 0..n}

(***************************************************************************)
(* Text                                                                    *)
(***************************************************************************)
NL == "\n"

\* a string as text
Str(s) == IF s = "" THEN << >> ELSE <<s>>

\* strings.Join(parts, "\n")
RECURSIVE Join(_)
Join(parts) ==
    IF parts = << >> THEN << >>
    ELSE IF Len(parts) = 1 THEN parts[1]
    ELSE parts[1] \o <<NL>> \o Join(Tail(parts))

\* strings.Replace(t, "\n\n", "\n", -1): non-overlapping, left to right
RECURSIVE ReplaceNLNL(_)
ReplaceNLNL(t) ==
    IF Len(t) < 2 THEN t
    ELSE IF t[1] = NL /\ t[2] = NL
         THEN <<NL>> \o ReplaceNLNL(SubSeq(t, 3, Len(t)))
         ELSE <<t[1]>> \o ReplaceNLNL(Tail(t))

\* the orders in which a range loop may visit the keys of map m
Orders(m) ==
    {o \in [1..Cardinality(DOMAIN m) -> DOMAIN m] :
        \A i, j \in DOMAIN o : o[i] = o[j] => i = j}

(***************************************************************************)
(* Report formatter                                                        *)
(***************************************************************************)
\* poolName(dc, wan, segment)
poolName(dc, wan, segment) ==
    LET pool == IF wan THEN "WAN" ELSE dc \o " (LAN)"
        seg  == IF segment # "" THEN " [" \o segment \o "]" ELSE segment
    IN  pool \o seg

\* formatMessages(messages); order is the order in which range visits the map
formatMessages(messages, order) ==
    Join([i \in 1..Len(order) |->
            <<"  ===> " \o order[i] \o ": " \o messages[order[i]]>>])

\* formatKeys(keys, total); order is the order in which range visits the map
formatKeys(keys, total, order) ==
    Join([i \in 1..Len(order) |->
            <<"  " \o order[i] \o " [" \o ToString(keys[order[i]]) \o "/"
                   \o ToString(total) \o "]">>])

\* formatResponse(response, keys)
formatResponse(response, keys, mOrder, kOrder) ==
    LET result == << Str(""),
                     Str(poolName(response.Datacenter, response.WAN,
                                  response.Segment) \o ":"),
                     formatMessages(response.Messages, mOrder),
                     formatKeys(keys, response.NumNodes, kOrder) >>
    IN  ReplaceNLNL(Join(result))

(***************************************************************************)
(* cmd.Run                                                                 *)
(***************************************************************************)
help == <<"Usage: consul keyring [options]">>

Error(text) == [kind |-> "Error", text |-> text]

\* cli.PrefixedUi with InfoPrefix "==> "
Info(s) == [kind |-> "Info", text |-> <<"==> " \o s>>]

Output(text) == [kind |-> "Output", text |-> text]

\* c.UI.Error(text); return 1
Fail(text) ==
    /\ ui' = Append(ui, Error(text))
    /\ exitCode' = 1
    /\ pc' = "Done"

\* the flag fields as c.init() registers them
Defaults ==
    [installKey |-> "", useKey |-> "", removeKey |-> "", listKeys |-> FALSE,
     listPrimaryKeys |-> FALSE, relay |-> 0, local |-> FALSE]

Init ==
    /\ pc = "Parse"
    /\ c = Defaults
    /\ relayFactor = 0
    /\ client = FALSE
    /\ calls = << >>
    /\ responses = << >>
    /\ idx = 1
    /\ ui = << >>
    /\ exitCode = -1

\* c.flags.Parse(args)
Parse ==
    /\ pc = "Parse"
    /\ \E ik \in KeyArgs, uk \in KeyArgs, rk \in KeyArgs, lk \in BOOLEAN,
          lpk \in BOOLEAN, r \in RelayInputs, lo \in BOOLEAN, ok \in BOOLEAN :
          /\ c' = [installKey |-> ik, useKey |-> uk, removeKey |-> rk,
                   listKeys |-> lk, listPrimaryKeys |-> lpk, relay |-> r,
                   local |-> lo]
          /\ IF ok THEN pc' = "Select" /\ exitCode' = exitCode
                   ELSE pc' = "Done" /\ exitCode' = 1
    /\ UNCHANGED <<relayFactor, client, calls, responses, idx, ui>>

\* the loop over installKey, useKey, removeKey
RECURSIVE ScanArgs(_, _)
ScanArgs(found, args) ==
    IF args = << >> THEN [multiple |-> FALSE, found |-> found]
    ELSE IF found /\ args[1] # "" THEN [multiple |-> TRUE, found |-> found]
    ELSE ScanArgs(found \/ args[1] # "", Tail(args))

\* "Only accept a single argument" and "Fail fast if no actionable args"
SingleAction ==
    /\ pc = "Select"
    /\ LET s == ScanArgs(c.listKeys \/ c.listPrimaryKeys,
                         <<c.installKey, c.useKey, c.removeKey>>)
       IN  IF s.multiple THEN Fail(<<"Only a single action is allowed">>)
           ELSE IF ~s.found THEN Fail(help)
           ELSE pc' = "Relay" /\ UNCHANGED <<ui, exitCode>>
    /\ UNCHANGED <<c, relayFactor, client, calls, responses, idx>>

\* agent.ParseRelayFactor(n) (uint8, error)
ParseRelayFactor(n) ==
    IF n < 0 \/ n > MaxRelayFactor
    THEN [value |-> 0, err |-> "InvalidRelayFactor"]
    ELSE [value |-> n % 256, err |-> NoError]

\* agent.ValidateLocalOnly(local, list) error
ValidateLocalOnly(local, list) ==
    IF local /\ ~list THEN "InvalidScope" ELSE NoError

RelayFactorUnchecked == [value |-> c.relay % 256, err |-> NoError]

\* agent.ParseRelayFactor(c.relay)
RelayFactorResult == ParseRelayFactor(c.relay)

\* "Validate the relay factor"
ValidateRelayFactor ==
    /\ pc = "Relay"
    /\ relayFactor' = RelayFactorResult.value
    /\ IF RelayFactorResult.err # NoError
       THEN Fail(<<"Error parsing relay factor: " \o RelayFactorResult.err>>)
       ELSE pc' = "Local" /\ UNCHANGED <<ui, exitCode>>
    /\ UNCHANGED <<c, client, calls, responses, idx>>

LocalOnlySwapped == ValidateLocalOnly(c.listKeys, c.local)

\* agent.ValidateLocalOnly(c.local, c.listKeys)
LocalOnlyResult == ValidateLocalOnly(c.local, c.listKeys)

\* "Validate local-only"
ValidateLocal ==
    /\ pc = "Local"
    /\ IF LocalOnlyResult # NoError
       THEN Fail(<<"Error validating local-only: " \o LocalOnlyResult>>)
       ELSE pc' = "Client" /\ UNCHANGED <<ui, exitCode>>
    /\ UNCHANGED <<c, relayFactor, client, calls, responses, idx>>

\* c.http.APIClient()
APIClient ==
    /\ pc = "Client"
    /\ \E err \in {NoError} \cup ClientErrors :
          IF err # NoError
          THEN Fail(<<"Error connecting to Consul agent: " \o err>>)
               /\ UNCHANGED client
          ELSE client' = TRUE /\ pc' = "Dispatch" /\ UNCHANGED <<ui, exitCode>>
    /\ UNCHANGED <<c, relayFactor, calls, responses, idx>>

VerbErrorIgnored(err) == FALSE

\* if err != nil after a client verb
VerbFailed(err) == err # NoError

InvokeTwice(req) == calls \o <<req, req>>

\* client.Operator().<verb>(...): one request to the agent
Invoke(req) == Append(calls, req)

QueryOptionsNoLocal == [RelayFactor |-> relayFactor, LocalOnly |-> FALSE]

\* &consulapi.QueryOptions{RelayFactor: relayFactor, LocalOnly: c.local}
QueryOptions == [RelayFactor |-> relayFactor, LocalOnly |-> c.local]

\* opts := &consulapi.WriteOptions{RelayFactor: relayFactor}
WriteOptions == [RelayFactor |-> relayFactor]

\* KeyringList(q): info line, the call, its error check; loop is the position
\* of the range loop that follows
KeyringList(info, loop) ==
    \E err \in {NoError} \cup TransportErrors,
       rs \in SeqsUpTo(ClientResponses, MaxResponses) :
        /\ err # NoError => rs = << >>
        /\ calls' = Invoke([verb |-> "KeyringList", key |-> "",
                            opts |-> QueryOptions, err |-> err])
        /\ responses' = rs
        /\ idx' = 1
        /\ IF VerbFailed(err)
           THEN /\ ui' = ui \o <<Info(info), Error(<<"error: " \o err>>)>>
                /\ exitCode' = 1
                /\ pc' = "Done"
           ELSE /\ ui' = Append(ui, Info(info))
                /\ pc' = loop
                /\ UNCHANGED exitCode

\* if c.listKeys { ... KeyringList ... }
ListKeys ==
    /\ pc = "Dispatch"
    /\ c.listKeys
    /\ KeyringList("Gathering installed encryption keys...", "ListLoop")
    /\ UNCHANGED <<c, relayFactor, client>>

\* if c.listPrimaryKeys { ... KeyringList ... }
ListPrimaryKeys ==
    /\ pc = "Dispatch"
    /\ ~c.listKeys
    /\ c.listPrimaryKeys
    /\ KeyringList("Gathering installed primary encryption keys...",
                   "PrimaryLoop")
    /\ UNCHANGED <<c, relayFactor, client>>

PrimaryListedAsKeys(response) == response.Keys

\* the keys argument of formatResponse in the list-primary loop
PrimaryListed(response) == response.PrimaryKeys

\* c.UI.Output(formatResponse(response, keys)) for the response at idx
OutputResponse(keys) ==
    /\ idx <= Len(responses)
    /\ \E mOrder \in Orders(responses[idx].Messages), kOrder \in Orders(keys) :
          ui' = Append(ui, Output(formatResponse(responses[idx], keys,
                                                 mOrder, kOrder)))
    /\ idx' = idx + 1
    /\ UNCHANGED <<pc, c, relayFactor, client, calls, responses, exitCode>>

\* for _, response := range responses, in the list branch
OutputKeys ==
    /\ pc = "ListLoop"
    /\ idx <= Len(responses)
    /\ OutputResponse(responses[idx].Keys)

\* for _, response := range responses, in the list-primary branch
OutputPrimaryKeys ==
    /\ pc = "PrimaryLoop"
    /\ idx <= Len(responses)
    /\ OutputResponse(PrimaryListed(responses[idx]))

\* return 0 after either loop
ListReturn ==
    /\ pc \in {"ListLoop", "PrimaryLoop"}
    /\ idx > Len(responses)
    /\ exitCode' = 0
    /\ pc' = "Done"
    /\ UNCHANGED <<c, relayFactor, client, calls, responses, idx, ui>>

\* a write verb: info line, the call, its error check, return
KeyringWrite(verb, key, info) ==
    \E err \in {NoError} \cup TransportErrors :
        /\ calls' = Invoke([verb |-> verb, key |-> key, opts |-> WriteOptions,
                            err |-> err])
        /\ IF VerbFailed(err)
           THEN /\ ui' = ui \o <<Info(info), Error(<<"error: " \o err>>)>>
                /\ exitCode' = 1
           ELSE /\ ui' = Append(ui, Info(info))
                /\ exitCode' = 0
        /\ pc' = "Done"

\* if c.installKey != "" { ... KeyringInstall ... }
InstallKey ==
    /\ pc = "Dispatch"
    /\ ~c.listKeys /\ ~c.listPrimaryKeys
    /\ c.installKey # ""
    /\ KeyringWrite("KeyringInstall", c.installKey,
                    "Installing new gossip encryption key...")
    /\ UNCHANGED <<c, relayFactor, client, responses, idx>>

\* if c.useKey != "" { ... KeyringUse ... }
UseKey ==
    /\ pc = "Dispatch"
    /\ ~c.listKeys /\ ~c.listPrimaryKeys /\ c.installKey = ""
    /\ c.useKey # ""
    /\ KeyringWrite("KeyringUse", c.useKey,
                    "Changing primary gossip encryption key...")
    /\ UNCHANGED <<c, relayFactor, client, responses, idx>>

\* if c.removeKey != "" { ... KeyringRemove ... }
RemoveKey ==
    /\ pc = "Dispatch"
    /\ ~c.listKeys /\ ~c.listPrimaryKeys /\ c.installKey = "" /\ c.useKey = ""
    /\ c.removeKey # ""
    /\ KeyringWrite("KeyringRemove", c.removeKey,
                    "Removing gossip encryption key...")
    /\ UNCHANGED <<c, relayFactor, client, responses, idx>>

Next ==
    \/ Parse
    \/ SingleAction
    \/ ValidateRelayFactor
    \/ ValidateLocal
    \/ APIClient
    \/ ListKeys
    \/ ListPrimaryKeys
    \/ OutputKeys
    \/ OutputPrimaryKeys
    \/ ListReturn
    \/ InstallKey
    \/ UseKey
    \/ RemoveKey

Spec == Init /\ [][Next]_vars

(***************************************************************************)
(* formatResponse on its own: one pool response, rendered twice            *)
(***************************************************************************)
InitFormat ==
    /\ pc = "Format"
    /\ \E primary \in BOOLEAN :
          c = [Defaults EXCEPT !.listKeys = ~primary,
                               !.listPrimaryKeys = primary]
    /\ relayFactor = 0
    /\ client = TRUE
    /\ calls = << >>
    /\ responses \in {<<r>> : r \in KeyringResponses}
    /\ idx = 1
    /\ ui = << >>
    /\ exitCode = -1

\* formatResponse(response, keys) on the same response
FormatResponseCall ==
    /\ pc = "Format"
    /\ Len(ui) < 2
    /\ LET keys == IF c.listKeys THEN responses[1].Keys
                                 ELSE responses[1].PrimaryKeys
       IN  \E mOrder \in Orders(responses[1].Messages),
              kOrder \in Orders(keys) :
              ui' = Append(ui, Output(formatResponse(responses[1], keys,
                                                     mOrder, kOrder)))
    /\ UNCHANGED <<pc, c, relayFactor, client, calls, responses, idx, exitCode>>

NextFormat == FormatResponseCall

SpecFormat == InitFormat /\ [][NextFormat]_vars

(***************************************************************************)
(* Observations used by the properties                                     *)
(***************************************************************************)
\* number of the five action flags that are set
NumActions ==
    Cardinality({f \in {"installKey", "useKey", "removeKey"} : c[f] # ""})
    + (IF c.listKeys THEN 1 ELSE 0) + (IF c.listPrimaryKeys THEN 1 ELSE 0)

MutatingSelected == c.installKey # "" \/ c.useKey # "" \/ c.removeKey # ""

\* Run returned 1 from the flag parser: the only return that writes nothing
ParseFailed == pc = "Done" /\ ui = << >>

HasError(text) == \E i \in DOMAIN ui : ui[i] = Error(text)

RelayRejected == HasError(<<"Error parsing relay factor: InvalidRelayFactor">>)

ScopeRejected == HasError(<<"Error validating local-only: InvalidScope">>)

IsOutput(e) == e.kind = "Output"

\* the blocks written with c.UI.Output, in order
Outputs == SelectSeq(ui, IsOutput)

\* every text formatResponse can return for a response and a key map
Renderings(response, keys) ==
    {formatResponse(response, keys, mOrder, kOrder) :
        mOrder \in Orders(response.Messages), kOrder \in Orders(keys)}

\* the read verb returned pool responses without a transport error
ReadSucceeded ==
    calls # << >> /\ calls[1].verb = "KeyringList" /\ calls[1].err = NoError

(***************************************************************************)
(* Properties                                                              *)
(***************************************************************************)
\* C1: when the read verb returned pool responses without a transport error,
\* Run exits with 1 iff at least one pool response carries a node-keyed
\* message, and with 0 otherwise.
ExitCodeReflectsNodeErrors ==
    (pc = "Done" /\ ReadSucceeded) =>
        (exitCode = 1 <=>
            \E i \in DOMAIN responses : DOMAIN responses[i].Messages # {})

\* C2: with zero or with two or more of the five action flags set, Run exits
\* with 1 and invokes no client verb.
ExactlyOneActionOrUsageError ==
    (pc # "Parse" /\ NumActions # 1) =>
        /\ calls = << >>
        /\ pc = "Done" => exitCode = 1

\* C3: with exactly one read action (list or list-primary), local-only set
\* and a relay factor in 0..5, scope validation passes and the read verb is
\* invoked with LocalOnly = TRUE.
LocalOnlyValidForBothReads ==
    (/\ pc \notin {"Parse", "Select", "Relay", "Local"}
     /\ ~ParseFailed
     /\ NumActions = 1
     /\ c.listKeys \/ c.listPrimaryKeys
     /\ c.local
     /\ c.relay \in 0..5) =>
        /\ ~ScopeRejected
        /\ calls # << >> =>
              calls[1].verb = "KeyringList" /\ calls[1].opts.LocalOnly
        /\ (pc = "Done" /\ client) => calls # << >>

\* C4: with local-only set and a mutating action (install, use, remove)
\* selected, Run exits with 1, obtains no client and invokes no verb, for
\* every relay factor; when that action is the only one and the relay factor
\* is valid, the failure is the scope validation error.
LocalOnlyRejectsMutation ==
    (pc # "Parse" /\ c.local /\ MutatingSelected) =>
        /\ ~client
        /\ calls = << >>
        /\ pc \notin {"Client", "Dispatch", "ListLoop", "PrimaryLoop"}
        /\ pc = "Done" => exitCode = 1
        /\ (pc = "Done" /\ ~ParseFailed /\ NumActions = 1 /\ c.relay \in 0..5)
              => ScopeRejected

LocalOnlyRejectsMutationWitness ==
    /\ pc = "Done"
    /\ c.local /\ c.useKey # "" /\ NumActions = 1 /\ c.relay = 3
    /\ ScopeRejected
    /\ exitCode = 1 /\ ~client /\ calls = << >>

\* C5: with a single action selected, Run gets past relay validation iff the
\* relay factor is in 0..5; otherwise it exits with 1 and makes no client
\* call.
RelayFactorRange ==
    /\ c.relay \notin 0..5 => (~client /\ calls = << >>)
    /\ (pc \notin {"Parse", "Select", "Relay"} /\ ~ParseFailed
           /\ NumActions = 1) =>
          /\ RelayRejected <=> c.relay \notin 0..5
          /\ c.relay \notin 0..5 => (pc = "Done" /\ exitCode = 1)
          /\ c.relay \in 0..5 => relayFactor = c.relay

RelayFactorRangeWitness ==
    /\ pc = "Done"
    /\ c.relay = 6 /\ c.installKey # "" /\ NumActions = 1
    /\ RelayRejected
    /\ exitCode = 1 /\ calls = << >>

\* C6: rendering the same pool response twice with formatResponse yields the
\* same text.
FormatterDeterministic ==
    Len(ui) = 2 => ui[1] = ui[2]

\* C7: when the invoked client verb returns an error, Run exits with 1, writes
\* the error and outputs no pool block.
TransportFailureFatal ==
    \A i \in DOMAIN calls :
        calls[i].err # NoError =>
            /\ pc = "Done"
            /\ exitCode = 1
            /\ HasError(<<"error: " \o calls[i].err>>)
            /\ Outputs = << >>

TransportFailureFatalWitness ==
    /\ pc = "Done"
    /\ calls # << >>
    /\ calls[1].verb = "KeyringList"
    /\ calls[1].err = "connection refused"
    /\ exitCode = 1

\* C8: a run invokes at most one client verb, and exactly one once the
\* validations passed and the client was obtained.
OneCallPerInvocation ==
    /\ Len(calls) <= 1
    /\ calls # << >> => client
    /\ client =>
          /\ NumActions >= 1
          /\ ~RelayRejected /\ ~ScopeRejected
          /\ c.relay \in 0..5
    /\ (pc = "Done" /\ client) => Len(calls) = 1

OneCallPerInvocationWitness ==
    /\ pc = "Done"
    /\ client
    /\ c.removeKey # ""
    /\ Len(calls) = 1
    /\ exitCode = 0

\* C9: the verb invoked matches the selected kind: the read verb with
\* {RelayFactor, LocalOnly} for list and list-primary, the install, use or
\* remove verb with the given key and {RelayFactor} otherwise.
DispatchMatchesKind ==
    \A i \in DOMAIN calls :
        LET q == calls[i] IN
        IF c.listKeys \/ c.listPrimaryKeys
        THEN /\ q.verb = "KeyringList"
             /\ q.opts = [RelayFactor |-> c.relay, LocalOnly |-> c.local]
        ELSE /\ q.opts = [RelayFactor |-> c.relay]
             /\ q.key # ""
             /\ \/ q.verb = "KeyringInstall" /\ q.key = c.installKey
                \/ q.verb = "KeyringUse" /\ q.key = c.useKey
                \/ q.verb = "KeyringRemove" /\ q.key = c.removeKey

DispatchMatchesKindWitness ==
    /\ calls # << >>
    /\ c.listKeys /\ ~c.listPrimaryKeys /\ c.local
    /\ calls[1].verb = "KeyringList"
    /\ calls[1].opts = [RelayFactor |-> 5, LocalOnly |-> TRUE]

\* C10: after a successful read returning n pool responses, Run outputs n
\* blocks, the i-th a rendering of the i-th response (its Keys for list, its
\* PrimaryKeys for list-primary), whether or not responses carry messages.
OneBlockPerResponse ==
    ReadSucceeded =>
        LET out == Outputs IN
        /\ Len(out) = idx - 1
        /\ Len(out) <= Len(responses)
        /\ pc = "Done" => Len(out) = Len(responses)
        /\ \A i \in DOMAIN out :
              out[i].text \in
                  Renderings(responses[i],
                             IF c.listKeys THEN responses[i].Keys
                                           ELSE responses[i].PrimaryKeys)

OneBlockPerResponseWitness ==
    /\ pc = "Done"
    /\ ReadSucceeded
    /\ c.listPrimaryKeys /\ ~c.listKeys
    /\ Len(responses) = 2
    /\ DOMAIN responses[1].Messages # {}
    /\ responses[1] # responses[2]
    /\ Len(Outputs) = 2

====
